---- MODULE Spec2Model ----
(***************************************************************************)
(* The client of the collaborative whiteboard (src/static/js/socket.js):   *)
(* class Whiteboard with its fabric canvas, its history / redoStack, the   *)
(* shape-mode listeners, the cursor throttle and the handlers of the       *)
(* events the relay broadcasts.  One client is modelled; the relay and the *)
(* other participants are its environment: they deliver events of any room *)
(* and the answer of GET /room/<id>/drawings.                              *)
(***************************************************************************)
EXTENDS Integers, Sequences, FiniteSets, TLC

\* ------------------------------------------------------------- bounds
\* drawing objects one run creates (local shapes, enlivened remote objects)
MaxObj == 2
\* listeners initRectMode / initCircleMode may pile up on the canvas
MaxHandlers == 2
\* entries of the answer of GET /room/<id>/drawings
MaxDrawings == 2

\* events the relay holds for one client, not yet delivered
MaxInFlight == 1

\* the canvas's width and height (window-dependent, set by resizeCanvas)
CanvasWidth == 4
CanvasHeight == 3
\* Date.now() when the page loads, and the latest time a run reaches
PageLoadTime == 100
MaxNow == 260

\* const EMIT_INTERVAL of setupEventListeners
EMIT_INTERVAL == 50

\* ------------------------------------------------------------- values
\* the room this Whiteboard was constructed for (constructor, roomId)
roomId == "R1"
\* rooms an incoming event may name; NoRoom is a payload without a room field
NoRoom == "none"
OtherRoom == "R2"
Rooms == {roomId, OtherRoom, NoRoom}

\* the value of a closure variable (let rect / let circle) never assigned
Undef == [id |-> 0, type |-> "undefined", data |-> 0, tag |-> "", at |-> <<0, 0>>]

\* serialized drawing objects other participants send or the relay stores
RemotePath == [type |-> "path", data |-> 101]
RemoteRect == [type |-> "rect", data |-> 102]
Payloads == {RemotePath, RemoteRect}

\* fabric's object.toJSON(): the serialized form, without the identity
toJSON(o) == [type |-> o.type, data |-> o.data]

\* fabric.util.enlivenObjects([path], cb): a new object built from the payload
Enliven(p, n) ==
    [id |-> n, type |-> p.type, data |-> p.data, tag |-> "", at |-> <<0, 0>>]

\* a shape or path the local user draws: new identity, its own geometry
NewShape(t, n) ==
    [id |-> n, type |-> t, data |-> n, tag |-> "", at |-> <<0, 0>>]

\* the fabric.Group updateCursor builds: id cursor_<userName>, left x, top y
CursorGroup(name, px, py) ==
    [id |-> 0, type |-> "group", data |-> 0, tag |-> name, at |-> <<px, py>>]

\* an event handed to SocketManager.emit by the Whiteboard
NoPath == [type |-> "none", data |-> 0]
Event(e, p) == [ev |-> e, room |-> roomId, path |-> p, x |-> 0, y |-> 0]
CursorEvent(px, py) ==
    [ev |-> "cursor_move", room |-> roomId, path |-> NoPath, x |-> px, y |-> py]

\* a field the payload does not have
Missing == "undefined"
\* the join the socket sends: its room and its userName field
JoinEvent(r, name) == [ev |-> "join", room |-> r, userName |-> name]

Last(s) == s[Len(s)]
Front(s) == SubSeq(s, 1, Len(s) - 1)

\* fabric canvas.add(o): appended to the canvas's object list
CanvasAdd(c, o) == Append(c, o)

\* fabric canvas.remove(o): the first occurrence leaves the list, if any
RECURSIVE CanvasRemove(_, _)
CanvasRemove(c, o) ==
    IF c = <<>> THEN <<>>
    ELSE IF Head(c) = o THEN Tail(c)
    ELSE <<Head(c)>> \o CanvasRemove(Tail(c), o)

VARIABLES
    canvas,         \* fabric canvas: its objects, bottom to top
    history,        \* this.history
    redoStack,      \* this.redoStack
    currentMode,    \* this.currentMode
    isDrawingMode,  \* this.canvas.isDrawingMode
    isDrawing,      \* this.isDrawing
    handlers,       \* closures of initRectMode / initCircleMode on the canvas
    cursorTracking, \* the throttled mouse:move listener is on the canvas
    pointerState,   \* the pointer: "up", "down", or "free" (a free-hand stroke)
    nextObj,        \* identity of the next object created; a listener that
                    \* pushes its unassigned shape uses one up as well
    out,            \* events emitted by the handler that ran last
    loadPc,         \* loadExistingDrawings: "fetch", "loop", "done", "failed"
    loadIdx,        \* loadExistingDrawings: entries of data.drawings done
    drawings,       \* data.drawings, the answer of the fetch
    viewportState,  \* this.viewportState
    lastEmit,       \* let lastEmit of setupEventListeners
    now,            \* Date.now()
    pointer,        \* the latest mouse:move sample, canvas.getPointer(opt.e)
    lastCursorAt,   \* observer: Date.now() of the latest cursor_move emitted
    prevCursorAt,   \* observer: Date.now() of the cursor_move before that one
    dropped,        \* observer: the latest sample the throttle dropped
    clearedUpTo,    \* observer: nextObj at the latest canvas.clear()
    obs,            \* observer of a run of draw actions followed by undos
    lastRoom,       \* SocketManager.lastRoom
    connected,      \* the socket.io connection is up
    activeUsers,    \* the count shown in the activeUsers element
    peer,           \* another participant's Whiteboard: canvas and stacks
    toPeer,         \* events the relay has broadcast to the peer, in order
    toMe            \* events the relay has broadcast to this client, in order

drawVars == <<canvas, history, redoStack>>
modeVars == <<currentMode, isDrawingMode, isDrawing, handlers, cursorTracking>>
loadVars == <<loadPc, loadIdx, drawings>>
cursorVars == <<lastEmit, now, pointer>>
cursorObs == <<lastCursorAt, prevCursorAt, dropped>>
observer == <<lastCursorAt, prevCursorAt, dropped, clearedUpTo, obs>>
sockVars == <<lastRoom, connected, activeUsers>>
peerVars == <<peer, toPeer, toMe>>

vars == <<canvas, history, redoStack, currentMode, isDrawingMode, isDrawing,
          handlers, cursorTracking, pointerState, nextObj, out, loadPc,
          loadIdx, drawings, viewportState, lastEmit, now, pointer,
          lastCursorAt, prevCursorAt, dropped, clearedUpTo, obs,
          lastRoom, connected, activeUsers, peer, toPeer, toMe>>

\* the display name set by setUserName before the page builds its Whiteboard
userName == "me"

\* the peer's Whiteboard when its page has loaded an empty room
PeerInit == [canvas |-> <<>>, history |-> <<>>, redoStack |-> <<>>, next |-> 1]

\* no sample dropped; the observer of draw / undo runs not watching
NoSample == <<-9, -9>>
ObsOff == [on |-> FALSE, hist |-> <<>>, draws |-> 0, undos |-> 0, log |-> <<>>]

\* sequences over S of length at most n
SeqUpTo(S, n) == UNION {[1..k -> S] : k \in 0..n}

\* the state after new Whiteboard(canvasId, socket, roomId): setupTools has
\* called setMode('draw'), setupEventListeners has put the throttled
\* mouse:move listener on the canvas, loadExistingDrawings waits for its
\* fetch and joinRoom has emitted the join
InitWith(answers) ==
    /\ canvas = <<>>
    /\ history = <<>>
    /\ redoStack = <<>>
    /\ currentMode = "draw"
    /\ isDrawingMode = TRUE
    /\ isDrawing = FALSE
    /\ handlers = <<>>
    /\ cursorTracking = TRUE
    /\ pointerState = "up"
    /\ nextObj = 1
    /\ out = <<JoinEvent(roomId, userName)>>
    /\ loadPc = "fetch"
    /\ loadIdx = 0
    /\ drawings \in answers
    /\ viewportState = [zoom |-> 1, pan |-> <<0, 0>>]
    /\ lastEmit = 0
    /\ now = PageLoadTime
    /\ pointer = <<0, 0>>
    /\ lastCursorAt = -1
    /\ prevCursorAt = -1
    /\ dropped = NoSample
    /\ clearedUpTo = 0
    /\ obs = ObsOff
    /\ lastRoom = roomId
    /\ connected = TRUE
    /\ activeUsers = 0
    /\ peer = PeerInit
    /\ toPeer = <<>>
    /\ toMe = <<>>

\* the room holds one path when the page loads
Init == InitWith({<<RemotePath>>})

\* ------------------------------------------------------------- undo / redo
\* undo() that forgets to pop: the object stays in history
UndoKeepsTop ==
    /\ IF Len(history) > 0
       THEN LET removed == Last(history) IN
            /\ history' = history
            /\ redoStack' = Append(redoStack, removed)
            /\ canvas' = CanvasRemove(canvas, removed)
            /\ out' = IF removed = Undef THEN <<>>
                      ELSE <<Event("undo", toJSON(removed))>>
       ELSE /\ UNCHANGED drawVars
            /\ out' = <<>>
    /\ UNCHANGED <<modeVars, loadVars, cursorVars, pointerState, nextObj,
                   viewportState, sockVars>>

\* undo() without its length test: pop() of an empty array gives undefined
UndoUnguarded ==
    /\ LET removed == IF Len(history) > 0 THEN Last(history) ELSE Undef IN
        /\ history' = IF Len(history) > 0 THEN Front(history) ELSE history
        /\ redoStack' = Append(redoStack, removed)
        /\ canvas' = CanvasRemove(canvas, removed)
        /\ out' = IF removed = Undef THEN <<>>
                  ELSE <<Event("undo", toJSON(removed))>>
    /\ UNCHANGED <<modeVars, loadVars, cursorVars, pointerState, nextObj,
                   viewportState, sockVars>>

\* Whiteboard.undo()
Undo ==
    /\ IF Len(history) > 0
       THEN LET removed == Last(history) IN
            /\ history' = Front(history)
            /\ redoStack' = Append(redoStack, removed)
            /\ canvas' = CanvasRemove(canvas, removed)
            \* removed.toJSON() throws on undefined: nothing is emitted
            /\ out' = IF removed = Undef THEN <<>>
                      ELSE <<Event("undo", toJSON(removed))>>
       ELSE /\ UNCHANGED drawVars
            /\ out' = <<>>
    /\ UNCHANGED <<modeVars, loadVars, cursorVars, pointerState, nextObj,
                   viewportState, sockVars>>

\* Whiteboard.redo()
Redo ==
    /\ IF Len(redoStack) > 0
       THEN LET restored == Last(redoStack) IN
            /\ redoStack' = Front(redoStack)
            /\ history' = Append(history, restored)
            /\ canvas' = CanvasAdd(canvas, restored)
            \* canvas.add(undefined) throws after the push: nothing is emitted
            /\ out' = IF restored = Undef THEN <<>>
                      ELSE <<Event("redo", toJSON(restored))>>
       ELSE /\ UNCHANGED drawVars
            /\ out' = <<>>
    /\ UNCHANGED <<modeVars, loadVars, cursorVars, pointerState, nextObj,
                   viewportState, sockVars>>

\* Whiteboard.clear()
Clear ==
    /\ canvas' = <<>>
    /\ out' = <<Event("clear", NoPath)>>
    /\ UNCHANGED <<history, redoStack, modeVars, loadVars, cursorVars,
                   pointerState, nextObj, viewportState, sockVars>>

\* ------------------------------------------------------------- pointer
\* the mouse:down listeners of initRectMode / initCircleMode, in the order
\* they were put on the canvas: each builds its shape and adds it
RECURSIVE FireMouseDown(_, _, _)
FireMouseDown(hs, n, c) ==
    IF hs = <<>> THEN [handlers |-> <<>>, canvas |-> c]
    ELSE LET shape == NewShape(Head(hs).type, n)
             rest == FireMouseDown(Tail(hs), n + 1, CanvasAdd(c, shape))
         IN [handlers |-> <<[type |-> Head(hs).type, shape |-> shape]>>
                            \o rest.handlers,
             canvas |-> rest.canvas]

\* pointer pressed on the canvas: fabric starts a stroke in drawing mode and
\* fires mouse:down
MouseDown ==
    /\ pointerState = "up"
    /\ nextObj + Len(handlers) - 1 <= MaxObj
    /\ pointerState' = IF isDrawingMode THEN "free" ELSE "down"
    /\ LET r == FireMouseDown(handlers, nextObj, canvas) IN
        /\ handlers' = r.handlers
        /\ canvas' = r.canvas
    /\ isDrawing' = IF handlers = <<>> THEN isDrawing ELSE TRUE
    /\ nextObj' = nextObj + Len(handlers)
    /\ out' = <<>>
    /\ UNCHANGED <<history, redoStack, currentMode, isDrawingMode,
                   cursorTracking, loadVars, cursorVars, viewportState, sockVars>>

\* one mouse:up listener of initRectMode / initCircleMode, on the state st
\* the listeners before it left; rect.toJSON() throws when the closure's
\* shape was never assigned, after the push and before the emit
ShapeMouseUp(h, st) ==
    [history |-> Append(st.history, h.shape),
     redoStack |-> <<>>,
     out |-> IF h.shape = Undef THEN st.out
             ELSE Append(st.out, Event("draw", toJSON(h.shape))),
     threw |-> h.shape = Undef]

\* fabric fires the listeners in order; an exception ends the firing
RECURSIVE FireMouseUp(_, _)
FireMouseUp(hs, st) ==
    IF hs = <<>> \/ st.threw THEN st
    ELSE FireMouseUp(Tail(hs), ShapeMouseUp(Head(hs), st))

\* the listeners whose closure holds no shape yet
Unassigned(hs) == Cardinality({i \in 1..Len(hs) : hs[i].shape = Undef})

\* pointer released with no stroke to finish: fabric fires mouse:up
MouseUp ==
    /\ pointerState # "up"
    /\ nextObj + Unassigned(handlers) - 1 <= MaxObj
    /\ pointerState' = "up"
    /\ LET r == FireMouseUp(handlers, [history |-> history,
                    redoStack |-> redoStack, out |-> <<>>, threw |-> FALSE])
       IN /\ history' = r.history
          /\ redoStack' = r.redoStack
          /\ out' = r.out
    /\ isDrawing' = IF handlers = <<>> THEN isDrawing ELSE FALSE
    /\ nextObj' = nextObj + Unassigned(handlers)
    /\ UNCHANGED <<canvas, currentMode, isDrawingMode, handlers,
                   cursorTracking, loadVars, cursorVars, viewportState, sockVars>>

\* pointer released in drawing mode after a stroke: fabric adds the path to
\* the canvas and fires path:created
PathCreated ==
    /\ pointerState = "free"
    /\ isDrawingMode
    /\ nextObj <= MaxObj
    /\ pointerState' = "up"
    /\ LET path == NewShape("path", nextObj) IN
        /\ canvas' = CanvasAdd(canvas, path)
        /\ history' = Append(history, path)
        /\ out' = <<Event("draw", toJSON(path))>>
    /\ nextObj' = nextObj + 1
    /\ UNCHANGED <<redoStack, modeVars, loadVars, cursorVars, viewportState, sockVars>>

\* ------------------------------------------------------------- modes
Modes == {"draw", "rect", "circle"}

\* Whiteboard.initDrawMode(): every mouse listener leaves the canvas
InitDrawMode ==
    /\ isDrawingMode' = TRUE
    /\ handlers' = <<>>
    /\ cursorTracking' = FALSE

\* Whiteboard.initRectMode() / initCircleMode(): three more listeners, their
\* closure's shape not yet assigned
InitShapeMode(t) ==
    /\ isDrawingMode' = FALSE
    /\ handlers' = Append(handlers, [type |-> t, shape |-> Undef])
    /\ UNCHANGED cursorTracking

\* Whiteboard.setMode(mode)
SetMode(mode) ==
    /\ mode \in {"rect", "circle"} => Len(handlers) < MaxHandlers
    /\ IF mode \notin Modes
       THEN UNCHANGED <<currentMode, isDrawingMode, handlers, cursorTracking>>
       ELSE /\ currentMode' = mode
            /\ IF mode = "draw" THEN InitDrawMode ELSE InitShapeMode(mode)
    /\ out' = <<>>
    /\ UNCHANGED <<drawVars, isDrawing, pointerState, nextObj, loadVars,
                   cursorVars, viewportState, sockVars>>

\* ------------------------------------------------------------- received
\* display names: the local user's (SocketManager.userName) and another's
Names == {userName, "bob", "eve"}
Positions == {<<1, 1>>, <<2, 3>>}
Viewports == {[zoom |-> 1, pan |-> <<0, 0>>], [zoom |-> 2, pan |-> <<5, 7>>]}
\* data.viewport of a payload that has no viewport field
NoViewport == [undefined |-> TRUE]

\* a draw_update handler that only renders: the object is not pushed
RecvDrawUpdateCanvasOnly(room, path) ==
    /\ nextObj <= MaxObj
    /\ IF room = roomId
       THEN /\ canvas' = CanvasAdd(canvas, Enliven(path, nextObj))
            /\ nextObj' = nextObj + 1
       ELSE UNCHANGED <<canvas, nextObj>>
    /\ out' = <<>>
    /\ UNCHANGED <<history, redoStack, modeVars, pointerState, loadVars,
                   cursorVars, viewportState, sockVars>>

\* socket.on('draw_update'): enlivenObjects calls back with the new object
RecvDrawUpdate(room, path) ==
    /\ nextObj <= MaxObj
    /\ IF room = roomId
       THEN LET obj == Enliven(path, nextObj) IN
            /\ canvas' = CanvasAdd(canvas, obj)
            /\ history' = Append(history, obj)
            /\ nextObj' = nextObj + 1
       ELSE UNCHANGED <<canvas, history, nextObj>>
    /\ out' = <<>>
    /\ UNCHANGED <<redoStack, modeVars, pointerState, loadVars, cursorVars,
                   viewportState, sockVars>>

\* an undo_update handler that answers the relay with an undo of its own
RecvUndoUpdateEcho(room) ==
    /\ IF room = roomId /\ Len(history) > 0
       THEN LET removed == Last(history) IN
            /\ history' = Front(history)
            /\ redoStack' = Append(redoStack, removed)
            /\ canvas' = CanvasRemove(canvas, removed)
            /\ out' = <<Event("undo", toJSON(removed))>>
       ELSE UNCHANGED drawVars /\ out' = <<>>
    /\ UNCHANGED <<modeVars, pointerState, nextObj, loadVars, cursorVars,
                   viewportState, sockVars>>

\* socket.on('undo_update')
RecvUndoUpdate(room) ==
    /\ IF room = roomId /\ Len(history) > 0
       THEN LET removed == Last(history) IN
            /\ history' = Front(history)
            /\ redoStack' = Append(redoStack, removed)
            /\ canvas' = CanvasRemove(canvas, removed)
       ELSE UNCHANGED drawVars
    /\ out' = <<>>
    /\ UNCHANGED <<modeVars, pointerState, nextObj, loadVars, cursorVars,
                   viewportState, sockVars>>

\* socket.on('redo_update')
RecvRedoUpdate(room) ==
    /\ IF room = roomId /\ Len(redoStack) > 0
       THEN LET restored == Last(redoStack) IN
            /\ redoStack' = Front(redoStack)
            /\ history' = Append(history, restored)
            /\ canvas' = CanvasAdd(canvas, restored)
       ELSE UNCHANGED drawVars
    /\ out' = <<>>
    /\ UNCHANGED <<modeVars, pointerState, nextObj, loadVars, cursorVars,
                   viewportState, sockVars>>

\* socket.on('clear_board'): the listener takes no payload
RecvClearBoard(room) ==
    /\ canvas' = <<>>
    /\ out' = <<>>
    /\ UNCHANGED <<history, redoStack, modeVars, pointerState, nextObj,
                   loadVars, cursorVars, viewportState, sockVars>>

\* Whiteboard.updateCursor(data)
RECURSIVE RemoveCursor(_, _)
RemoveCursor(c, name) ==
    IF c = <<>> THEN <<>>
    ELSE IF Head(c).type = "group" /\ Head(c).tag = name THEN Tail(c)
    ELSE <<Head(c)>> \o RemoveCursor(Tail(c), name)

\* an updateCursor that leaves the old marker on the canvas
updateCursorKeepOld(c, name, pos) ==
    CanvasAdd(c, CursorGroup(name, pos[1], pos[2]))

updateCursor(c, name, pos) ==
    CanvasAdd(RemoveCursor(c, name), CursorGroup(name, pos[1], pos[2]))

\* a cursor_update handler that keeps the marker on history as well
RecvCursorUpdatePushed(room, name, pos) ==
    /\ IF room = roomId /\ name # userName
       THEN /\ canvas' = updateCursor(canvas, name, pos)
            /\ history' = Append(history, CursorGroup(name, pos[1], pos[2]))
       ELSE UNCHANGED <<canvas, history>>
    /\ out' = <<>>
    /\ UNCHANGED <<redoStack, modeVars, pointerState, nextObj,
                   loadVars, cursorVars, viewportState, sockVars>>

\* socket.on('cursor_update')
RecvCursorUpdate(room, name, pos) ==
    /\ IF room = roomId /\ name # userName
       THEN canvas' = updateCursor(canvas, name, pos)
       ELSE UNCHANGED canvas
    /\ out' = <<>>
    /\ UNCHANGED <<history, redoStack, modeVars, pointerState, nextObj,
                   loadVars, cursorVars, viewportState, sockVars>>

\* socket.on('viewport_update'): the assignment comes first; with a payload
\* that has no viewport, data.viewport.zoom then throws and on() catches it
RecvViewportUpdate(room, viewport) ==
    /\ IF room = roomId
       THEN viewportState' = viewport
       ELSE UNCHANGED viewportState
    /\ out' = <<>>
    /\ UNCHANGED <<drawVars, modeVars, pointerState, nextObj, loadVars,
                   cursorVars, sockVars>>

\* ------------------------------------------------------------- hydration
\* loadExistingDrawings: the fetch answers ok and data.drawings is read
LoadFetched ==
    /\ loadPc = "fetch"
    /\ loadPc' = IF Len(drawings) = 0 THEN "done" ELSE "loop"
    /\ out' = <<>>
    /\ UNCHANGED <<drawVars, modeVars, pointerState, nextObj, loadIdx,
                   drawings, cursorVars, viewportState, sockVars>>

\* loadExistingDrawings: the fetch fails or answers not ok; the catch logs
LoadFailed ==
    /\ loadPc = "fetch"
    /\ loadPc' = "failed"
    /\ out' = <<>>
    /\ UNCHANGED <<drawVars, modeVars, pointerState, nextObj, loadIdx,
                   drawings, cursorVars, viewportState, sockVars>>

\* loadExistingDrawings: one turn of the loop, the next entry enlivened,
\* added to the canvas and pushed on history
LoadStep ==
    /\ loadPc = "loop"
    /\ nextObj <= MaxObj
    /\ LET obj == Enliven(drawings[loadIdx + 1], nextObj) IN
        /\ canvas' = CanvasAdd(canvas, obj)
        /\ history' = Append(history, obj)
    /\ nextObj' = nextObj + 1
    /\ loadIdx' = loadIdx + 1
    /\ loadPc' = IF loadIdx + 1 = Len(drawings) THEN "done" ELSE "loop"
    /\ out' = <<>>
    /\ UNCHANGED <<redoStack, modeVars, pointerState, drawings, cursorVars,
                   viewportState, sockVars>>

\* ------------------------------------------------------------- cursor
\* pointer positions the canvas reports, inside and outside its bounds
Samples == {-1, 2, CanvasWidth + 1} \X {-1, 1, CanvasHeight + 1}
\* milliseconds between two things happening
Delays == {25, 51}

Min(a, b) == IF a < b THEN a ELSE b
Max(a, b) == IF a > b THEN a ELSE b

\* a clamp that forgets the lower bound
ClampXTop(px) == Min(px, CanvasWidth)

\* Math.min(Math.max(pointer.x, 0), this.canvas.width), and the same for y
ClampX(px) == Min(Max(px, 0), CanvasWidth)
ClampY(py) == Min(Max(py, 0), CanvasHeight)

\* a throttle that only asks for time to have moved on
ThrottleOpenAnyGap == now - lastEmit > 0

\* the throttle's test: now - lastEmit > EMIT_INTERVAL
ThrottleOpen == now - lastEmit > EMIT_INTERVAL

\* a throttle that queues: it emits the sample it held back, not this one
MouseMoveQueued(sample) ==
    /\ pointer' = sample
    /\ IF cursorTracking /\ ThrottleOpen
       THEN /\ out' = <<CursorEvent(ClampX(pointer[1]), ClampY(pointer[2]))>>
            /\ lastEmit' = now
       ELSE /\ out' = <<>>
            /\ UNCHANGED lastEmit
    /\ UNCHANGED <<drawVars, modeVars, pointerState, nextObj, loadVars, now,
                   viewportState, sockVars>>

\* canvas mouse:move: the throttled listener of setupEventListeners, if it
\* is still on the canvas.  (The mouse:move listeners of the shape modes
\* only resize the shape being drawn, which the model does not hold.)
MouseMove(sample) ==
    /\ pointer' = sample
    /\ IF cursorTracking /\ ThrottleOpen
       THEN /\ out' = <<CursorEvent(ClampX(sample[1]), ClampY(sample[2]))>>
            /\ lastEmit' = now
       ELSE /\ out' = <<>>
            /\ UNCHANGED lastEmit
    /\ UNCHANGED <<drawVars, modeVars, pointerState, nextObj, loadVars, now,
                   viewportState, sockVars>>

\* time passes
Tick(d) ==
    /\ now + d <= MaxNow
    /\ now' = now + d
    /\ out' = <<>>
    /\ UNCHANGED <<drawVars, modeVars, pointerState, nextObj, loadVars,
                   lastEmit, pointer, viewportState, sockVars>>

\* ------------------------------------------------------------- SocketManager
\* this.lastRoom before the first joinRoom
Null == "null"
\* counts the relay reports in user_joined / user_left
Counts == {1, 2}

\* the socket's connect event: the manager joins its last room again
Connect ==
    /\ ~connected
    /\ connected' = TRUE
    /\ out' = IF lastRoom # Null THEN <<JoinEvent(lastRoom, Missing)>>
              ELSE <<>>
    /\ UNCHANGED <<lastRoom, activeUsers, drawVars, modeVars, pointerState,
                   nextObj, loadVars, cursorVars, viewportState>>

\* the socket's disconnect event: logged
Disconnect ==
    /\ connected
    /\ connected' = FALSE
    /\ out' = <<>>
    /\ UNCHANGED <<lastRoom, activeUsers, drawVars, modeVars, pointerState,
                   nextObj, loadVars, cursorVars, viewportState>>

\* SocketManager.joinRoom(r)
JoinRoom(r) ==
    /\ lastRoom' = r
    /\ out' = <<JoinEvent(r, userName)>>
    /\ UNCHANGED <<connected, activeUsers, drawVars, modeVars, pointerState,
                   nextObj, loadVars, cursorVars, viewportState>>

\* socket.on('user_joined'): the count goes to the activeUsers element
RecvUserJoined(count) ==
    /\ activeUsers' = count
    /\ out' = <<>>
    /\ UNCHANGED <<lastRoom, connected, drawVars, modeVars, pointerState,
                   nextObj, loadVars, cursorVars, viewportState>>

\* socket.on('user_left'): the count goes to the activeUsers element
RecvUserLeft(count) ==
    /\ activeUsers' = count
    /\ out' = <<>>
    /\ UNCHANGED <<lastRoom, connected, drawVars, modeVars, pointerState,
                   nextObj, loadVars, cursorVars, viewportState>>

\* new Whiteboard(canvasId, socket, roomId) on a page whose SocketManager
\* exists: the fields get their first values, loadExistingDrawings starts
\* its fetch and the constructor ends with socket.joinRoom(this.roomId)
NewWhiteboard ==
    /\ loadPc = "idle"
    /\ canvas' = <<>>
    /\ history' = <<>>
    /\ redoStack' = <<>>
    /\ currentMode' = "draw"
    /\ isDrawingMode' = TRUE
    /\ isDrawing' = FALSE
    /\ handlers' = <<>>
    /\ cursorTracking' = TRUE
    /\ viewportState' = [zoom |-> 1, pan |-> <<0, 0>>]
    /\ lastEmit' = 0
    /\ loadPc' = "fetch"
    /\ loadIdx' = 0
    /\ lastRoom' = roomId
    /\ out' = <<JoinEvent(roomId, userName)>>
    /\ UNCHANGED <<pointerState, nextObj, drawings, now, pointer, connected,
                   activeUsers>>

\* ------------------------------------------------------------- the peer
\* Another participant of the room runs the same Whiteboard; of its state
\* the model keeps the canvas, the two stacks and its object counter.
\* a path the peer draws: its own identity and geometry
PeerShape(n) ==
    [id |-> n, type |-> "path", data |-> 200 + n, tag |-> "", at |-> <<0, 0>>]

\* the relay: a draw, undo, redo or clear goes to the other members of the
\* room as draw_update, undo_update, redo_update or clear_board
IsDrawingEvent(e) == e.ev \in {"draw", "undo", "redo", "clear"}
RelayName(ev) ==
    CASE ev = "draw" -> "draw_update"
      [] ev = "undo" -> "undo_update"
      [] ev = "redo" -> "redo_update"
      [] ev = "clear" -> "clear_board"
Broadcast(evs) ==
    LET sel == SelectSeq(evs, IsDrawingEvent) IN
    [i \in 1..Len(sel) |-> [sel[i] EXCEPT !.ev = RelayName(@)]]

\* the peer's listeners, with an undo_update that takes the oldest object
PeerHandleOldest(p, e) ==
    CASE e.ev = "draw_update" /\ e.room = roomId ->
            LET obj == Enliven(e.path, p.next) IN
            [p EXCEPT !.canvas = CanvasAdd(@, obj),
                      !.history = Append(@, obj),
                      !.next = @ + 1]
      [] e.ev = "undo_update" /\ e.room = roomId /\ Len(p.history) > 0 ->
            [p EXCEPT !.history = Tail(@),
                      !.redoStack = Append(@, Head(p.history)),
                      !.canvas = CanvasRemove(@, Head(p.history))]
      [] e.ev = "redo_update" /\ e.room = roomId /\ Len(p.redoStack) > 0 ->
            [p EXCEPT !.redoStack = Front(@),
                      !.history = Append(@, Last(p.redoStack)),
                      !.canvas = CanvasAdd(@, Last(p.redoStack))]
      [] e.ev = "clear_board" -> [p EXCEPT !.canvas = <<>>]
      [] OTHER -> p

\* the peer's listeners for draw_update, undo_update, redo_update and
\* clear_board
PeerHandle(p, e) ==
    CASE e.ev = "draw_update" /\ e.room = roomId ->
            LET obj == Enliven(e.path, p.next) IN
            [p EXCEPT !.canvas = CanvasAdd(@, obj),
                      !.history = Append(@, obj),
                      !.next = @ + 1]
      [] e.ev = "undo_update" /\ e.room = roomId /\ Len(p.history) > 0 ->
            [p EXCEPT !.history = Front(@),
                      !.redoStack = Append(@, Last(p.history)),
                      !.canvas = CanvasRemove(@, Last(p.history))]
      [] e.ev = "redo_update" /\ e.room = roomId /\ Len(p.redoStack) > 0 ->
            [p EXCEPT !.redoStack = Front(@),
                      !.history = Append(@, Last(p.redoStack)),
                      !.canvas = CanvasAdd(@, Last(p.redoStack))]
      [] e.ev = "clear_board" -> [p EXCEPT !.canvas = <<>>]
      [] OTHER -> p

\* this client's own variables, which nothing the peer does can write
clientVars == <<drawVars, modeVars, pointerState, nextObj, out, loadVars,
                cursorVars, viewportState, sockVars>>

\* the relay delivers the next event to the peer
PeerReceives ==
    /\ toPeer # <<>>
    /\ Head(toPeer).ev = "draw_update" => peer.next <= MaxObj
    /\ peer' = PeerHandle(peer, Head(toPeer))
    /\ toPeer' = Tail(toPeer)
    /\ UNCHANGED <<toMe, clientVars>>

\* the peer finishes a free-hand stroke: path:created
PeerDraws ==
    /\ peer.next <= MaxObj
    /\ Len(toMe) < MaxInFlight
    /\ LET path == PeerShape(peer.next) IN
        /\ peer' = [peer EXCEPT !.canvas = CanvasAdd(@, path),
                                !.history = Append(@, path),
                                !.next = @ + 1]
        /\ toMe' = toMe \o Broadcast(<<Event("draw", toJSON(path))>>)
    /\ UNCHANGED <<toPeer, clientVars>>

\* the peer calls undo()
PeerUndoes ==
    /\ Len(peer.history) > 0
    /\ Len(toMe) < MaxInFlight
    /\ LET removed == Last(peer.history) IN
        /\ peer' = [peer EXCEPT !.history = Front(@),
                                !.redoStack = Append(@, removed),
                                !.canvas = CanvasRemove(@, removed)]
        /\ toMe' = toMe \o Broadcast(<<Event("undo", toJSON(removed))>>)
    /\ UNCHANGED <<toPeer, clientVars>>

\* the peer calls redo()
PeerRedoes ==
    /\ Len(peer.redoStack) > 0
    /\ Len(toMe) < MaxInFlight
    /\ LET restored == Last(peer.redoStack) IN
        /\ peer' = [peer EXCEPT !.redoStack = Front(@),
                                !.history = Append(@, restored),
                                !.canvas = CanvasAdd(@, restored)]
        /\ toMe' = toMe \o Broadcast(<<Event("redo", toJSON(restored))>>)
    /\ UNCHANGED <<toPeer, clientVars>>

\* the peer calls clear()
PeerClears ==
    /\ Len(toMe) < MaxInFlight
    /\ peer' = [peer EXCEPT !.canvas = <<>>]
    /\ toMe' = toMe \o Broadcast(<<Event("clear", NoPath)>>)
    /\ UNCHANGED <<toPeer, clientVars>>

\* the relay delivers the next event to this client's listener
MeReceives ==
    /\ toMe # <<>>
    /\ LET e == Head(toMe) IN
        \/ e.ev = "draw_update" /\ RecvDrawUpdate(e.room, e.path)
        \/ e.ev = "undo_update" /\ RecvUndoUpdate(e.room)
        \/ e.ev = "redo_update" /\ RecvRedoUpdate(e.room)
        \/ e.ev = "clear_board" /\ RecvClearBoard(e.room)
    /\ toMe' = Tail(toMe)
    /\ UNCHANGED <<peer, toPeer>>

\* what this client emitted goes through the relay to the peer
Relayed ==
    /\ Len(toPeer) < MaxInFlight
    /\ toPeer' = toPeer \o Broadcast(out')
    /\ UNCHANGED <<peer, toMe>>

\* ------------------------------------------------------------- specifications
\* the drawing side of the client: pointer gestures, modes, undo / redo /
\* clear, the drawing events of the room and the hydration
Next ==
    \/ Undo /\ UNCHANGED <<observer, peerVars>>
    \/ Redo /\ UNCHANGED <<observer, peerVars>>
    \/ Clear /\ UNCHANGED <<observer, peerVars>>
    \/ MouseDown /\ UNCHANGED <<observer, peerVars>>
    \/ MouseUp /\ UNCHANGED <<observer, peerVars>>
    \/ PathCreated /\ UNCHANGED <<observer, peerVars>>
    \/ \E mode \in Modes \cup {"line"} : SetMode(mode) /\ UNCHANGED <<observer, peerVars>>
    \/ \E room \in {roomId, OtherRoom} :
            RecvDrawUpdate(room, RemoteRect) /\ UNCHANGED <<observer, peerVars>>
    \/ \E room \in {roomId, OtherRoom} : RecvUndoUpdate(room) /\ UNCHANGED <<observer, peerVars>>
    \/ \E room \in {roomId, OtherRoom} : RecvRedoUpdate(room) /\ UNCHANGED <<observer, peerVars>>
    \/ \E room \in {roomId, OtherRoom} : RecvClearBoard(room) /\ UNCHANGED <<observer, peerVars>>
    \/ LoadFetched /\ UNCHANGED <<observer, peerVars>>
    \/ LoadFailed /\ UNCHANGED <<observer, peerVars>>
    \/ LoadStep /\ UNCHANGED <<observer, peerVars>>

Spec == Init /\ [][Next]_vars

\* the cursor throttle: samples at any rate, in any mode
ObserveCursor ==
    /\ lastCursorAt' = IF out' # <<>> THEN now ELSE lastCursorAt
    /\ prevCursorAt' = IF out' # <<>> THEN lastCursorAt ELSE prevCursorAt
    /\ dropped' = IF out' # <<>> THEN dropped ELSE pointer'
    /\ UNCHANGED <<clearedUpTo, obs, peerVars>>

NextCursor ==
    \/ \E sample \in Samples : MouseMove(sample) /\ ObserveCursor
    \/ \E d \in Delays : Tick(d) /\ UNCHANGED <<observer, peerVars>>
    \/ \E mode \in Modes : SetMode(mode) /\ UNCHANGED <<observer, peerVars>>

SpecCursor == Init /\ [][NextCursor]_vars

\* the events of the room as the client handles them, display events included
NextDisplay ==
    \/ MouseDown /\ UNCHANGED <<observer, peerVars>>
    \/ PathCreated /\ UNCHANGED <<observer, peerVars>>
    \/ Undo /\ UNCHANGED <<observer, peerVars>>
    \/ \E room \in Rooms :
            RecvDrawUpdate(room, RemoteRect) /\ UNCHANGED <<observer, peerVars>>
    \/ \E room \in Rooms : RecvUndoUpdate(room) /\ UNCHANGED <<observer, peerVars>>
    \/ \E room \in Rooms : RecvRedoUpdate(room) /\ UNCHANGED <<observer, peerVars>>
    \/ \E room \in Rooms : RecvClearBoard(room) /\ UNCHANGED <<observer, peerVars>>
    \/ \E room \in Rooms, name \in Names, pos \in Positions :
            RecvCursorUpdate(room, name, pos) /\ UNCHANGED <<observer, peerVars>>
    \/ \E room \in Rooms, viewport \in Viewports :
            RecvViewportUpdate(room, viewport) /\ UNCHANGED <<observer, peerVars>>

SpecDisplay == Init /\ [][NextDisplay]_vars

\* hydration of a room that holds drawings, while the user draws and other
\* members' draw_update events arrive
InitHydrate == InitWith(SeqUpTo(Payloads, MaxDrawings) \ {<<>>})

NextHydrate ==
    \/ LoadFetched /\ UNCHANGED <<observer, peerVars>>
    \/ LoadFailed /\ UNCHANGED <<observer, peerVars>>
    \/ LoadStep /\ UNCHANGED <<observer, peerVars>>
    \/ MouseDown /\ UNCHANGED <<observer, peerVars>>
    \/ PathCreated /\ UNCHANGED <<observer, peerVars>>
    \/ \E room \in Rooms, path \in Payloads :
            RecvDrawUpdate(room, path) /\ UNCHANGED <<observer, peerVars>>

SpecHydrate == InitHydrate /\ [][NextHydrate]_vars

\* clearing, with the observer marking the objects that existed at the clear
ObserveClear ==
    /\ clearedUpTo' = nextObj
    /\ UNCHANGED <<cursorObs, obs, peerVars>>

NextClear ==
    \/ MouseDown /\ UNCHANGED <<observer, peerVars>>
    \/ PathCreated /\ UNCHANGED <<observer, peerVars>>
    \/ Undo /\ UNCHANGED <<observer, peerVars>>
    \/ Redo /\ UNCHANGED <<observer, peerVars>>
    \/ Clear /\ ObserveClear
    \/ \E room \in Rooms :
            RecvDrawUpdate(room, RemoteRect) /\ UNCHANGED <<observer, peerVars>>
    \/ \E room \in Rooms : RecvUndoUpdate(room) /\ UNCHANGED <<observer, peerVars>>
    \/ \E room \in Rooms : RecvRedoUpdate(room) /\ UNCHANGED <<observer, peerVars>>
    \/ \E room \in Rooms : RecvClearBoard(room) /\ ObserveClear

SpecClear == Init /\ [][NextClear]_vars

\* a run of draw actions followed by undo() calls, watched by the observer:
\* it starts watching at any moment, counts the draw actions and the undo()
\* calls, keeps the events they emit, and stops watching when anything else
\* touches the stacks
BeginObs ==
    /\ ~obs.on
    /\ obs' = [on |-> TRUE, hist |-> history, draws |-> 0, undos |-> 0,
               log |-> <<>>]
    /\ UNCHANGED <<drawVars, modeVars, pointerState, nextObj, out, loadVars,
                   cursorVars, viewportState, sockVars, cursorObs, clearedUpTo,
                   peerVars>>

ObserveDraw ==
    /\ obs' = IF obs.on /\ obs.undos = 0
              THEN [obs EXCEPT !.draws = @ + 1, !.log = @ \o out']
              ELSE ObsOff
    /\ UNCHANGED <<cursorObs, clearedUpTo, peerVars>>

ObserveUndo ==
    /\ obs' = IF obs.on /\ obs.undos < obs.draws
              THEN [obs EXCEPT !.undos = @ + 1, !.log = @ \o out']
              ELSE ObsOff
    /\ UNCHANGED <<cursorObs, clearedUpTo, peerVars>>

ObserveOther ==
    /\ obs' = ObsOff
    /\ UNCHANGED <<cursorObs, clearedUpTo, peerVars>>

NextRoundTrip ==
    \/ BeginObs
    \/ MouseDown /\ UNCHANGED <<observer, peerVars>>
    \/ \E mode \in Modes : SetMode(mode) /\ UNCHANGED <<observer, peerVars>>
    \/ PathCreated /\ ObserveDraw
    \/ MouseUp /\ handlers = <<>> /\ UNCHANGED <<observer, peerVars>>
    \/ MouseUp /\ handlers # <<>> /\ Unassigned(handlers) = 0 /\ ObserveDraw
    \/ MouseUp /\ Unassigned(handlers) > 0 /\ ObserveOther
    \/ Undo /\ ObserveUndo
    \/ \E room \in Rooms : RecvDrawUpdate(room, RemoteRect) /\ ObserveOther

SpecRoundTrip == Init /\ [][NextRoundTrip]_vars

\* the page from the moment its SocketManager exists: the socket connects
\* and reconnects, the Whiteboard is built, joinRoom is called, and the
\* events of the relay reach the listeners registered through on()
InitSocket ==
    /\ canvas = <<>>
    /\ history = <<>>
    /\ redoStack = <<>>
    /\ currentMode = "draw"
    /\ isDrawingMode = TRUE
    /\ isDrawing = FALSE
    /\ handlers = <<>>
    /\ cursorTracking = TRUE
    /\ pointerState = "up"
    /\ nextObj = 1
    /\ out = <<>>
    /\ loadPc = "idle"
    /\ loadIdx = 0
    /\ drawings = <<RemotePath>>
    /\ viewportState = [zoom |-> 1, pan |-> <<0, 0>>]
    /\ lastEmit = 0
    /\ now = PageLoadTime
    /\ pointer = <<0, 0>>
    /\ lastCursorAt = -1
    /\ prevCursorAt = -1
    /\ dropped = NoSample
    /\ clearedUpTo = 0
    /\ obs = ObsOff
    /\ lastRoom = Null
    /\ connected = FALSE
    /\ activeUsers = 0
    /\ peer = PeerInit
    /\ toPeer = <<>>
    /\ toMe = <<>>

\* the Whiteboard exists and its listeners are registered
Built == loadPc # "idle"

NextSocket ==
    \/ NewWhiteboard /\ UNCHANGED <<observer, peerVars>>
    \/ Connect /\ UNCHANGED <<observer, peerVars>>
    \/ Disconnect /\ UNCHANGED <<observer, peerVars>>
    \/ \E r \in {roomId, OtherRoom} :
            JoinRoom(r) /\ UNCHANGED <<observer, peerVars>>
    \/ \E count \in Counts :
            connected /\ RecvUserJoined(count) /\ UNCHANGED <<observer, peerVars>>
    \/ \E count \in Counts :
            connected /\ RecvUserLeft(count) /\ UNCHANGED <<observer, peerVars>>
    \/ Built /\ Undo /\ UNCHANGED <<observer, peerVars>>
    \/ \E room \in Rooms :
            /\ Built /\ connected
            /\ RecvDrawUpdate(room, RemoteRect) /\ UNCHANGED <<observer, peerVars>>
    \/ \E room \in Rooms :
            /\ Built /\ connected
            /\ RecvUndoUpdate(room) /\ UNCHANGED <<observer, peerVars>>
    \/ \E room \in Rooms :
            /\ Built /\ connected
            /\ RecvRedoUpdate(room) /\ UNCHANGED <<observer, peerVars>>
    \/ \E room \in Rooms :
            /\ Built /\ connected
            /\ RecvClearBoard(room) /\ UNCHANGED <<observer, peerVars>>
    \/ \E room \in Rooms, name \in Names, pos \in Positions :
            /\ Built /\ connected
            /\ RecvCursorUpdate(room, name, pos) /\ UNCHANGED <<observer, peerVars>>
    \/ \E room \in Rooms, viewport \in Viewports \cup {NoViewport} :
            /\ Built /\ connected
            /\ RecvViewportUpdate(room, viewport) /\ UNCHANGED <<observer, peerVars>>

SpecSocket == InitSocket /\ [][NextSocket]_vars

\* two participants of one empty room, each drawing with the pen, undoing,
\* redoing and clearing; the relay delivers in the order of emission
InitPeers == InitWith({<<>>})

NextPeers ==
    \/ LoadFetched /\ Relayed /\ UNCHANGED observer
    \/ MouseDown /\ Relayed /\ UNCHANGED observer
    \/ PathCreated /\ Relayed /\ UNCHANGED observer
    \/ Undo /\ Relayed /\ UNCHANGED observer
    \/ Redo /\ Relayed /\ UNCHANGED observer
    \/ Clear /\ Relayed /\ UNCHANGED observer
    \/ MeReceives /\ UNCHANGED observer
    \/ PeerReceives /\ UNCHANGED observer
    \/ PeerDraws /\ UNCHANGED observer
    \/ PeerUndoes /\ UNCHANGED observer
    \/ PeerRedoes /\ UNCHANGED observer
    \/ PeerClears /\ UNCHANGED observer

SpecPeers == InitPeers /\ [][NextPeers]_vars

\* one participant acts and the other only follows: the peer's listeners
\* handle what the relay delivers, and the peer itself does nothing
NextFollow ==
    \/ LoadFetched /\ Relayed /\ UNCHANGED observer
    \/ MouseDown /\ Relayed /\ UNCHANGED observer
    \/ PathCreated /\ Relayed /\ UNCHANGED observer
    \/ Undo /\ Relayed /\ UNCHANGED observer
    \/ Redo /\ Relayed /\ UNCHANGED observer
    \/ Clear /\ Relayed /\ UNCHANGED observer
    \/ PeerReceives /\ UNCHANGED observer

SpecFollow == InitPeers /\ [][NextFollow]_vars

\* ------------------------------------------------------------- claims
\* the serialized forms of a sequence of objects, in order
Data(objs) == [i \in 1..Len(objs) |-> toJSON(objs[i])]

\* a step that emitted a draw event
EmitsDraw == out' # <<>> /\ Last(out').ev = "draw"

\* C1: after a local draw action completes (free-hand stroke, rectangle or
\* circle), redoStack is empty, so a redo() right after it changes nothing
C1_RedoEmptyAfterDraw ==
    [][EmitsDraw => redoStack' = <<>>]_vars

\* the room's history as the relay keeps it: a draw appends the object, an
\* undo removes the object at the top
RECURSIVE ApplyRoom(_, _)
ApplyRoom(room, evs) ==
    IF evs = <<>> THEN room
    ELSE ApplyRoom(
            IF Head(evs).ev = "draw" THEN Append(room, Head(evs).path)
            ELSE IF Head(evs).ev = "undo" /\ room # <<>> THEN Front(room)
            ELSE room,
            Tail(evs))

\* C2: n local draw actions followed by n undo() calls, no remote event in
\* between, emit n draw events followed by n undo events, and leave history
\* and the room's history as they were before the first draw
C2_DrawUndoRoundTrip ==
    (obs.on /\ obs.draws > 0 /\ obs.undos = obs.draws) =>
        /\ Len(obs.log) = obs.draws + obs.undos
        /\ \A i \in 1..Len(obs.log) :
                obs.log[i].ev = IF i <= obs.draws THEN "draw" ELSE "undo"
        /\ history = obs.hist
        /\ ApplyRoom(Data(obs.hist), obs.log) = Data(obs.hist)

\* C3: undo() with a non-empty history moves its last element to redoStack
\* and emits exactly one undo event; redo() with a non-empty redoStack moves
\* its last element to history and emits exactly one redo event
C3_UndoRedoMoveTop ==
    [][/\ (Undo /\ Len(history) > 0) =>
            /\ history' = Front(history)
            /\ redoStack' = Append(redoStack, Last(history))
            /\ Len(out') = 1 /\ out'[1].ev = "undo"
       /\ (Redo /\ Len(redoStack) > 0) =>
            /\ redoStack' = Front(redoStack)
            /\ history' = Append(history, Last(redoStack))
            /\ Len(out') = 1 /\ out'[1].ev = "redo"]_vars

\* the drawing objects of a stack, the undefined entries left out
Objects(stack) == {i \in 1..Len(stack) : stack[i] # Undef}

\* C4: no drawing object is in history and in redoStack at the same time,
\* and none occurs twice within history or within redoStack
C4_StacksDisjoint ==
    /\ \A i \in Objects(history), j \in Objects(redoStack) :
            history[i] # redoStack[j]
    /\ \A i, j \in Objects(history) : i # j => history[i] # history[j]
    /\ \A i, j \in Objects(redoStack) : i # j => redoStack[i] # redoStack[j]

\* C4 witness: objects in both stacks after undos, local and received
C4_Witness ==
    /\ Objects(history) # {}
    /\ Objects(redoStack) # {}
    /\ loadPc = "done"
    /\ handlers # <<>>

\* C5: the step that ends hydration leaves exactly the fetched drawings in
\* history and on the canvas, each once and in their order, also when local
\* draws or draw_update events came while it was pending
C5_HydrationExact ==
    [][(loadPc # "done" /\ loadPc' = "done") =>
            /\ Data(history') = drawings
            /\ Data(canvas') = drawings]_vars

\* an object made before the latest clear of the canvas
PreClear(o) == o # Undef /\ o.type # "group" /\ o.id < clearedUpTo

\* C6: after clear() or clear_board no object made before the clear is on
\* the canvas again, and no undo or redo event refers to one
C6_ClearedStaysCleared ==
    [][/\ \A i \in 1..Len(canvas') :
            canvas'[i] # Undef /\ canvas'[i].type # "group"
                => canvas'[i].id >= clearedUpTo'
       /\ (Undo /\ out' # <<>>) => ~PreClear(Last(history))
       /\ (Redo /\ out' # <<>>) => ~PreClear(Last(redoStack))]_vars

\* C7: a received draw_update or clear_board leaves history and redoStack
\* as they were
C7_RemoteDrawKeepsStacks ==
    [][((\E room \in Rooms : RecvDrawUpdate(room, RemoteRect))
            \/ (\E room \in Rooms : RecvClearBoard(room)))
        => history' = history /\ redoStack' = redoStack]_vars

\* C7 amended: clear_board leaves both stacks as they were; a draw_update
\* leaves redoStack as it was and, when it is of the client's room, puts
\* its one new object on top of history (and on the canvas)
C7_RemoteDrawPushesHistory ==
    [][/\ \A room \in Rooms :
            RecvDrawUpdate(room, RemoteRect) =>
                /\ redoStack' = redoStack
                /\ IF room = roomId
                   THEN /\ Len(history') = Len(history) + 1
                        /\ Front(history') = history
                        /\ toJSON(Last(history')) = RemoteRect
                        /\ canvas' = Append(canvas, Last(history'))
                   ELSE history' = history /\ canvas' = canvas
       /\ \A room \in Rooms :
            RecvClearBoard(room) =>
                history' = history /\ redoStack' = redoStack]_vars

\* C7 witness: a received object on top of the user's own, the redo stack
\* in use
C7_Witness ==
    /\ Len(history) >= 2
    /\ toJSON(Last(history)) = RemoteRect
    /\ history[1].type = "path" /\ history[1].data = history[1].id

\* C8: an event of another room, or with no room field, changes neither
\* the canvas, nor history, nor redoStack, nor viewportState
C8_OtherRoomIgnored ==
    [][\A room \in Rooms \ {roomId} :
        (\/ RecvDrawUpdate(room, RemoteRect)
         \/ RecvUndoUpdate(room)
         \/ RecvRedoUpdate(room)
         \/ RecvClearBoard(room)
         \/ \E name \in Names, pos \in Positions :
                RecvCursorUpdate(room, name, pos)
         \/ \E viewport \in Viewports : RecvViewportUpdate(room, viewport))
        => UNCHANGED <<canvas, history, redoStack, viewportState>>]_vars

\* C9: two consecutive cursor_move events are at least 50 ms apart
C9_CursorThrottled ==
    prevCursorAt # -1 => lastCursorAt - prevCursorAt >= EMIT_INTERVAL

\* C9 witness: a second cursor_move, emitted in a shape mode
C9_Witness ==
    /\ prevCursorAt # -1
    /\ handlers # <<>>
    /\ out # <<>>

\* C10: an emitted cursor_move carries the coordinates of the sample being
\* handled
C10_EmitsSample ==
    \A i \in 1..Len(out) :
        out[i].ev = "cursor_move" =>
            out[i].x = pointer[1] /\ out[i].y = pointer[2]

\* C10 amended: an emitted cursor_move carries the coordinates of the
\* sample being handled, brought into the canvas's bounds; a sample the
\* throttle dropped is not what a later event carries
C10_EmitsClampedSample ==
    \A i \in 1..Len(out) :
        out[i].ev = "cursor_move" =>
            /\ out[i].x = (IF pointer[1] < 0 THEN 0
                           ELSE IF pointer[1] > CanvasWidth THEN CanvasWidth
                           ELSE pointer[1])
            /\ out[i].y = (IF pointer[2] < 0 THEN 0
                           ELSE IF pointer[2] > CanvasHeight THEN CanvasHeight
                           ELSE pointer[2])

\* C10 witness: a cursor_move after a dropped sample with other coordinates
C10_Witness ==
    /\ out # <<>> /\ out[1].ev = "cursor_move"
    /\ dropped # NoSample
    /\ dropped[1] # pointer[1] /\ dropped[2] # pointer[2]
    /\ <<out[1].x, out[1].y>> # dropped

\* C11: every emitted cursor_move has 0 <= x <= canvas.width and
\* 0 <= y <= canvas.height whatever the pointer position, and a position
\* inside those bounds is emitted unchanged
C11_CursorWithinCanvas ==
    \A i \in 1..Len(out) :
        out[i].ev = "cursor_move" =>
            /\ 0 <= out[i].x /\ out[i].x <= CanvasWidth
            /\ 0 <= out[i].y /\ out[i].y <= CanvasHeight
            /\ (0 <= pointer[1] /\ pointer[1] <= CanvasWidth)
                    => out[i].x = pointer[1]
            /\ (0 <= pointer[2] /\ pointer[2] <= CanvasHeight)
                    => out[i].y = pointer[2]

\* C11 witness: a cursor_move for a pointer left of the canvas whose y is
\* inside it
C11_Witness ==
    /\ out # <<>> /\ out[1].ev = "cursor_move"
    /\ pointer[1] < 0 /\ out[1].x = 0
    /\ 0 <= pointer[2] /\ pointer[2] <= CanvasHeight /\ out[1].y = pointer[2]

\* C12: after any setMode calls, a pointer-down / pointer-up gesture in
\* rectangle or circle mode pushes exactly one object, the shape of the
\* current mode, on history, clears redoStack and emits exactly one draw; a
\* pointer-up with no pointer-down in a shape mode pushes and emits nothing
C12_OneShapePerGesture ==
    [][(MouseUp /\ currentMode \in {"rect", "circle"}) =>
            IF pointerState = "down"
            THEN /\ Len(history') = Len(history) + 1
                 /\ Front(history') = history
                 /\ Last(history') # Undef
                 /\ Last(history').type = currentMode
                 /\ redoStack' = <<>>
                 /\ Len(out') = 1 /\ out'[1].ev = "draw"
            ELSE history' = history /\ out' = <<>>]_vars

\* C13: every join the client emits, from joinRoom or from the re-join on a
\* connect, carries the room of the most recent joinRoom and the userName;
\* a connect before the first joinRoom emits no join
C13_JoinCarriesRoomAndName ==
    [][/\ \A i \in 1..Len(out') :
            out'[i].ev = "join" =>
                /\ out'[i].room = lastRoom'
                /\ out'[i].userName = userName
       /\ (Connect /\ lastRoom = Null) => out' = <<>>]_vars

\* C16: a received event whose callback throws (a viewport_update without
\* its viewport) leaves the client as if it had not been received
C16_FailingEventIgnored ==
    [][\A room \in Rooms :
        RecvViewportUpdate(room, NoViewport)
            => UNCHANGED <<canvas, history, redoStack, viewportState>>]_vars

C15_DisplayOnly ==
    [][/\ ((\E room \in Rooms, name \in Names, pos \in Positions :
                RecvCursorUpdate(room, name, pos))
           \/ (\E room \in Rooms, viewport \in Viewports :
                RecvViewportUpdate(room, viewport)))
          => history' = history /\ redoStack' = redoStack
       /\ \A i \in 1..Len(history') :
            history'[i].type # "group" /\ history'[i] \notin Viewports
       /\ \A i \in 1..Len(redoStack') :
            redoStack'[i].type # "group" /\ redoStack'[i] \notin Viewports]_vars

\* C15 witness: a cursor marker on the canvas and another viewport, with
\* objects on both stacks
C15_Witness ==
    /\ \E i \in 1..Len(canvas) : canvas[i].type = "group"
    /\ viewportState = [zoom |-> 2, pan |-> <<5, 7>>]
    /\ history # <<>>
    /\ redoStack # <<>>

\* C18: undo() with an empty history, redo() with an empty redoStack, an
\* undo_update with an empty history and a redo_update with an empty
\* redoStack leave canvas, history and redoStack as they were, and emit
\* nothing
C18_EmptyStackNoOp ==
    [][/\ (Undo /\ history = <<>>)
            => UNCHANGED <<canvas, history, redoStack>> /\ out' = <<>>
       /\ (Redo /\ redoStack = <<>>)
            => UNCHANGED <<canvas, history, redoStack>> /\ out' = <<>>
       /\ (RecvUndoUpdate(roomId) /\ history = <<>>)
            => UNCHANGED <<canvas, history, redoStack>> /\ out' = <<>>
       /\ (RecvRedoUpdate(roomId) /\ redoStack = <<>>)
            => UNCHANGED <<canvas, history, redoStack>> /\ out' = <<>>]_vars

\* C18 witness: after hydration everything was undone: history is empty
\* again, the canvas too, and the handler that ran last emitted nothing
C18_Witness ==
    /\ loadPc = "done"
    /\ history = <<>>
    /\ redoStack # <<>>
    /\ canvas = <<>>
    /\ out = <<>>

\* C20: with no gesture in progress, the drawing objects on the canvas
\* (cursor markers left out) are exactly the elements of history, and no
\* element of redoStack is on the canvas
C20_CanvasIsHistory ==
    pointerState = "up" =>
        /\ {canvas[i] : i \in {j \in 1..Len(canvas) : canvas[j].type # "group"}}
                = {history[i] : i \in 1..Len(history)}
        /\ \A i \in 1..Len(redoStack), j \in 1..Len(canvas) :
                redoStack[i] # canvas[j]

\* the two participants hold the same history and nothing is in flight
InSync ==
    /\ toPeer = <<>> /\ toMe = <<>>
    /\ Data(history) = Data(peer.history)

DrawingSet(c) ==
    {toJSON(c[i]) : i \in {j \in 1..Len(c) : c[j].type # "group"}}

\* C19: with every draw, undo, redo and clear delivered to the other client
\* in the sender's order, once nothing is in flight both canvases hold the
\* same set of drawing objects
C19_Converges ==
    (toPeer = <<>> /\ toMe = <<>>) => DrawingSet(canvas) = DrawingSet(peer.canvas)

\* C21: after any setMode calls, a mouse:move sample that comes more than
\* 50 ms after the last emitted cursor_move makes the client emit a
\* cursor_move
C21_CursorTrackingStaysOn ==
    [][\A sample \in Samples :
        (MouseMove(sample) /\ now - lastEmit > EMIT_INTERVAL)
            => (Len(out') = 1 /\ out'[1].ev = "cursor_move")]_vars

\* the places of the canvas that hold the cursor marker of a userName
Markers(c, name) ==
    {i \in 1..Len(c) : c[i].type = "group" /\ c[i].tag = name}

\* C22: the canvas holds at most one cursor marker per userName and none
\* for the client's own; an accepted cursor_update puts its userName's
\* marker at its x, y, and a marker is never anywhere but where the latest
\* accepted cursor_update of its userName put it
C22_OneMarkerPerUser ==
    [][/\ \A name \in Names : Cardinality(Markers(canvas', name)) <= 1
       /\ Markers(canvas', userName) = {}
       /\ \A room \in Rooms, name \in Names, pos \in Positions :
            (RecvCursorUpdate(room, name, pos)
                    /\ room = roomId /\ name # userName)
                => \E i \in Markers(canvas', name) : canvas'[i].at = pos
       /\ \A name \in Names : \A i \in Markers(canvas', name) :
            \/ \E j \in Markers(canvas, name) : canvas[j] = canvas'[i]
            \/ \E pos \in Positions :
                    /\ RecvCursorUpdate(roomId, name, pos)
                    /\ canvas'[i].at = pos]_vars

\* C22 witness: the markers of two users at different places, the one
\* updated last on top, and a drawing object
C22_Witness ==
    /\ Markers(canvas, "bob") # {} /\ Markers(canvas, "eve") # {}
    /\ \E i \in Markers(canvas, "bob"), j \in Markers(canvas, "eve") :
            i > j /\ canvas[i].at # canvas[j].at
    /\ \E i \in 1..Len(canvas) : canvas[i].type # "group"
====
